---- MODULE Spec2Model ----
(***************************************************************************)
(* Model of import_geojson_gh.py: the tiled fetch-and-reconstruction       *)
(* pipeline (calculate_bbox, the tile planner and fetch loop of main,      *)
(* download_data with its retry loop, deduplication, project_coords,       *)
(* create_building_brep), and a second call of main on the same inputs.    *)
(*                                                                         *)
(* Numbers.  Python floats are modelled by a scaled-down binary floating   *)
(* point format: integers on a grid of unit 1 whose significand has Prec   *)
(* bits, every arithmetic result rounded to nearest, ties to even (RNQ).   *)
(* binary64 has a 53 bit significand; Prec is the scaled-down width.       *)
(* The cosine of calculate_bbox is tabulated as a rational (CosNum,        *)
(* CosDen) and the metre-to-degree factor R*pi/180 is MetresPerUnit.       *)
(* Inputs and offsets are multiples of 4, so that the divisions by steps   *)
(* (1, 2 or 4) are exact, as they are on binary64.                         *)
(*                                                                         *)
(* Optional values.  An absent Grasshopper input (Python None) is the      *)
(* record None; a number x is Num(x).  Truthy is Python truthiness.        *)
(***************************************************************************)
EXTENDS Integers, Sequences, FiniteSets, TLC

(* ------------------------------ bounds --------------------------------- *)
Prec == 4             \* significand bits of the modelled float format
MaxFeatures == 3      \* features the service delivers in a one-tile run
MaxFeaturesGrid == 2  \* the same, in a run over the 2x2 grid
MaxFeaturesWide == 1  \* the same, in a run over the 4x4 grid

(* ------------------------- optional numbers ---------------------------- *)
None == [none |-> TRUE, v |-> 0]
Num(x) == [none |-> FALSE, v |-> x]
\* Python truthiness of an input value: None and 0 are both false
Truthy(x) == (~x.none) /\ x.v # 0

(* ------------------------- float arithmetic ---------------------------- *)
Abs(x) == IF x < 0 THEN -x ELSE x

RECURSIVE Pow2(_)
Pow2(n) == IF n = 0 THEN 1 ELSE 2 * Pow2(n - 1)

\* spacing of the float grid at magnitude n/d (d > 0): the least power of
\* two u with |n/d| < 2^Prec * u
RECURSIVE UlpFrom(_, _, _)
UlpFrom(n, d, u) == IF Abs(n) < Pow2(Prec) * u * d THEN u ELSE UlpFrom(n, d, 2 * u)
Ulp(n, d) == UlpFrom(n, d, 1)

\* the float nearest to the rational n/d (d > 0), ties to the even significand
RNQ(n, d) ==
    LET a == Abs(n)
        u == Ulp(n, d)
        q == a \div (d * u)
        r == a - q * d * u
        m == IF 2 * r < d * u THEN q
             ELSE IF 2 * r > d * u THEN q + 1
             ELSE IF q % 2 = 0 THEN q ELSE q + 1
    IN  IF n < 0 THEN -(m * u) ELSE m * u

RN(x) == RNQ(x, 1)
FAdd(a, b) == RN(a + b)
FSub(a, b) == RN(a - b)
FMul(a, b) == RN(a * b)
FDiv(a, b) == RNQ(a, b)

\* "{}".format(x) followed by float(...): Python 3 prints the shortest
\* decimal string that parses back to the same float
FormatFloat(x) == RN(x)
ParseFloat(s) == RN(s)

(* ------------------------------ inputs --------------------------------- *)
\* module-level execution: an input not bound by the host is None
RunInputs == BOOLEAN
LatInputs == {None, Num(0), Num(24)}
LonInputs == {None, Num(0), Num(4)}
RadiusInputs == {None, Num(200), Num(1000)}

\* wider inputs for the planner-only specification
PlanLatInputs == {None, Num(0), Num(24), Num(-4), Num(60)}
PlanLonInputs == {None, Num(0), Num(4), Num(-4), Num(-8), Num(36), Num(-52)}
PlanRadiusInputs ==
    {None, Num(0), Num(200), Num(251), Num(252), Num(500), Num(501), Num(1000)}

\* the radius of the specification of two runs in a row
TwiceRadiusInputs == {Num(200)}

(* --------------------------- calculate_bbox ---------------------------- *)
\* radius_m / R * 180 / pi: metres to degrees of latitude.  One model unit
\* of latitude is MetresPerUnit metres.
MetresPerUnit == 25
LatOffset(radius_m) == 4 * FDiv(radius_m, 4 * MetresPerUnit)

\* math.cos(math.pi * lat / 180) as the rational CosNum/CosDen
CosNum(lat) == IF Abs(lat) >= 60 THEN 1 ELSE IF Abs(lat) >= 24 THEN 2 ELSE 1
CosDen(lat) == IF Abs(lat) >= 60 THEN 2 ELSE IF Abs(lat) >= 24 THEN 3 ELSE 1
LonOffset(lat, radius_m) == 4 * FDiv(radius_m * CosDen(lat), 4 * MetresPerUnit * CosNum(lat))

calculate_bbox(lat_, lon_, radius_m) ==
    LET lat_offset == LatOffset(radius_m)
        lon_offset == LonOffset(lat_, radius_m)
    IN  [min_lon |-> FormatFloat(FSub(lon_, lon_offset)),
         min_lat |-> FormatFloat(FSub(lat_, lat_offset)),
         max_lon |-> FormatFloat(FAdd(lon_, lon_offset)),
         max_lat |-> FormatFloat(FAdd(lat_, lat_offset))]

NoBBox == [min_lon |-> 0, min_lat |-> 0, max_lon |-> 0, max_lat |-> 0]

(* ----------------------------- tile planner ---------------------------- *)
\* mutant: the first threshold is exclusive
StepsForStrict(r) == IF r < 251 THEN 1 ELSE IF r <= 500 THEN 2 ELSE 4

\* adaptive tiling based on radius
StepsFor(r) == IF r <= 251 THEN 1 ELSE IF r <= 500 THEN 2 ELSE 4

\* the tile built by the loop body for row i, column j (0-based)
TileAt(bb, steps_, i, j) ==
    LET lat_step == FDiv(FSub(bb.max_lat, bb.min_lat), steps_)
        lon_step == FDiv(FSub(bb.max_lon, bb.min_lon), steps_)
    IN  [min_lon |-> FormatFloat(FAdd(bb.min_lon, FMul(j, lon_step))),
         min_lat |-> FormatFloat(FAdd(bb.min_lat, FMul(i, lat_step))),
         max_lon |-> FormatFloat(FAdd(bb.min_lon, FMul(j + 1, lon_step))),
         max_lat |-> FormatFloat(FAdd(bb.min_lat, FMul(i + 1, lat_step)))]

\* mutant: the loops are nested the other way round (column-major order)
PlanTilesColumnMajor(bb, steps_) ==
    [k \in 1..(steps_ * steps_) |->
        TileAt(bb, steps_, (k - 1) % steps_, (k - 1) \div steps_)]

\* for i in range(steps): for j in range(steps): tiles.append(...)
PlanTiles(bb, steps_) ==
    [k \in 1..(steps_ * steps_) |->
        TileAt(bb, steps_, (k - 1) \div steps_, (k - 1) % steps_)]

(* ------------------------------ features ------------------------------- *)
\* A feature of a fetched payload, as main and create_building_brep read it:
\*   id      feature.get('id'): "absent" (no id, or null), "" (an empty id),
\*           or a non-empty id
\*   props   feature.get('properties', {}): "dict", "absent" or "null"
\*   height  props.get('height', 3.0): "absent", "num" (a number), "null"
\*           or "text" (a string that is no number)
\*   gtype   the geometry: "absent" (no geometry key), "null", "notype"
\*           (a dict without 'type'), "Point", "Polygon" or "MultiPolygon"
\*   polys   one entry per polygon of the coordinates: "ok", "bad_ring"
\*           (create_polyline raises), "no_surface" (CreatePlanarBreps gives
\*           nothing), "no_extrusion" (CreateExtrusion gives nothing)
\*   vertex  the first coordinate pair [lon, lat] of its exterior rings
Vertex(lon_, lat_) == [lon |-> lon_, lat |-> lat_]

Feat(id, props, height, gtype, polys, vertex) ==
    [id |-> id, props |-> props, height |-> height, gtype |-> gtype, polys |-> polys,
     vertex |-> vertex]

Features ==
    { Feat("a", "dict", "num", "Polygon", <<"ok">>, Vertex(4, 24)),
      Feat("b", "absent", "absent", "MultiPolygon", <<"ok", "bad_ring", "ok">>, Vertex(8, 28)),
      Feat("a", "dict", "absent", "Polygon", <<"no_surface">>, Vertex(4, 24)),
      Feat("absent", "dict", "num", "MultiPolygon", <<"ok", "ok">>, Vertex(4, 24)),
      Feat("", "dict", "num", "Point", <<>>, Vertex(8, 28)),
      Feat("c", "dict", "num", "null", <<>>, Vertex(0, 0)),
      Feat("c", "dict", "text", "Polygon", <<"ok">>, Vertex(0, 0)) }

SeqsUpTo(S, n) == UNION {[1..k -> S] : k \in 0..n}

\* A response body that json.loads accepts:
\*   "features"       a dict whose 'features' is a list of feature dicts
\*   "no_key"         a dict without 'features' (data.get gives [])
\*   "not_dict"       valid JSON that is no dict (data.get raises)
\*   "null_features"  a dict whose 'features' is null (len(None) raises)
Body(kind, fs) == [kind |-> kind, features |-> fs]
NoData == Body("None", <<>>)
Bodies(room) ==
    {Body("features", fs) : fs \in SeqsUpTo(Features, room)}
        \cup {Body("no_key", <<>>), Body("not_dict", <<>>), Body("null_features", <<>>)}

\* the exceptions the three except clauses of download_data name
FetchErrors == {"IncompleteRead", "ValueError", "Exception"}

(* ------------------------------- state --------------------------------- *)
VARIABLES
    run, lat, lon, radius_arg,  \* the inputs bound by the host (module level)
    radius,                     \* main's local radius (reassigned by the default)
    pc,                         \* position in main / download_data
    raised,                     \* exception that left main, "none" if none
    bbox, steps, tiles,         \* parsed full bbox, grid size, tile list
    ti,                         \* tiles completed by the fetch loop
    attempt, waits, exc,        \* download_data: loop index, sleeps, pending exception
    slept,                      \* download_data: seconds slept in this call
    response,                   \* download_data: the body the last urlopen read
    json_str,                   \* download_data's return value
    dl_calls,                   \* the bbox argument of each download_data call
    attempts_total, waits_total,\* urlopen calls and sleeps of the whole run
    all_features, unique_features,
    fi,                         \* features completed by the geometry loop
    buildings,                  \* main's result list
    debug_messages,             \* the log buffer (projection, see Log)
    replay,                     \* "off": one run; "record": the first of two
                                \* runs; "play": the second, served as the first
    served,                     \* the outcome of each urlopen of the first run
    first_result                \* what the first of two runs ended with

vars == <<run, lat, lon, radius_arg, radius, pc, raised, bbox, steps, tiles, ti,
          attempt, waits, exc, slept, response, json_str, dl_calls, attempts_total, waits_total,
          all_features, unique_features, fi, buildings, debug_messages,
          replay, served, first_result>>

inputVars == <<run, lat, lon, radius_arg>>
planVars == <<bbox, steps, tiles>>
fetchVars == <<ti, attempt, waits, exc, slept, response, json_str, dl_calls,
               attempts_total, waits_total>>
geomVars == <<unique_features, fi, buildings>>
replayVars == <<replay, served, first_result>>

\* log(msg): append to debug_messages.  The buffer is modelled by its
\* control-flow messages; the per-attempt warnings and per-tile timing and
\* count lines are left out.
Msg(kind, n) == [msg |-> kind, n |-> n]
Log(m) == debug_messages' = Append(debug_messages, m)

max_retries == 3

\* the result of a run: the returned list, or the exception that left main
Result(returned, bs, e) == [returned |-> returned, buildings |-> bs, raised |-> e]
NoResult == Result(FALSE, <<>>, "none")

InitLocals ==
    /\ radius = radius_arg
    /\ pc = "main"
    /\ raised = "none"
    /\ bbox = NoBBox
    /\ steps = 0
    /\ tiles = <<>>
    /\ ti = 0
    /\ attempt = 0
    /\ waits = 0
    /\ exc = "none"
    /\ slept = 0
    /\ response = NoData
    /\ json_str = NoData
    /\ dl_calls = <<>>
    /\ attempts_total = 0
    /\ waits_total = 0
    /\ all_features = <<>>
    /\ unique_features = <<>>
    /\ fi = 0
    /\ buildings = <<>>
    /\ debug_messages = <<>>
    /\ served = <<>>
    /\ first_result = NoResult

Init ==
    /\ run \in RunInputs
    /\ lat \in LatInputs
    /\ lon \in LonInputs
    /\ radius_arg \in RadiusInputs
    /\ replay = "off"
    /\ InitLocals

InitPlan ==
    /\ run \in RunInputs
    /\ lat \in PlanLatInputs
    /\ lon \in PlanLonInputs
    /\ radius_arg \in PlanRadiusInputs
    /\ replay = "off"
    /\ InitLocals

\* two runs on the same inputs, over the one-tile grid
InitTwice ==
    /\ run \in RunInputs
    /\ lat \in LatInputs
    /\ lon \in LonInputs
    /\ radius_arg \in TwiceRadiusInputs
    /\ replay = "record"
    /\ InitLocals

(* -------------------------- main: the guards --------------------------- *)
\* mutant: the run flag is not looked at
RunOffIgnored(r) == FALSE

\* `not run`
RunOff(r) == ~r

\* if not run: log; return buildings
CheckRun ==
    /\ pc = "main"
    /\ IF RunOff(run)
       THEN /\ Log(Msg("run_false", 0))
            /\ pc' = "done"
       ELSE /\ pc' = "validate"
            /\ UNCHANGED debug_messages
    /\ UNCHANGED <<inputVars, replayVars, radius, raised, planVars, fetchVars, all_features, geomVars>>

\* mutant: only the latitude is required
InputsMissingLatOnly(la, lo) == ~Truthy(la)

\* `not lat or not lon`
InputsMissing(la, lo) == ~Truthy(la) \/ ~Truthy(lo)

\* mutant: another default radius
DefaultRadiusOther(r) == IF ~Truthy(r) THEN Num(250) ELSE r

\* if not radius: radius = 500.0
DefaultRadius(r) == IF ~Truthy(r) THEN Num(500) ELSE r

\* if not lat or not lon: log; return buildings; then the radius default
ValidateInputs ==
    /\ pc = "validate"
    /\ IF InputsMissing(lat, lon)
       THEN /\ Log(Msg("latlon_required", 0))
            /\ pc' = "done"
            /\ UNCHANGED radius
       ELSE /\ radius' = DefaultRadius(radius)
            /\ pc' = "bbox"
            /\ UNCHANGED debug_messages
    /\ UNCHANGED <<inputVars, replayVars, raised, planVars, fetchVars, all_features, geomVars>>

(* ----------------------- main: bbox and tile plan ---------------------- *)
\* full_bbox_str = calculate_bbox(lat, lon, radius); parts = split(','); float(...)
ComputeBBox ==
    /\ pc = "bbox"
    /\ LET full_bbox_str == calculate_bbox(lat.v, lon.v, radius.v)
       IN  bbox' = [min_lon |-> ParseFloat(full_bbox_str.min_lon),
                    min_lat |-> ParseFloat(full_bbox_str.min_lat),
                    max_lon |-> ParseFloat(full_bbox_str.max_lon),
                    max_lat |-> ParseFloat(full_bbox_str.max_lat)]
    /\ pc' = "plan"
    /\ UNCHANGED <<inputVars, replayVars, radius, raised, steps, tiles, fetchVars, all_features,
                   geomVars, debug_messages>>

\* the radius thresholds and the two nested range(steps) loops
PlanGrid ==
    /\ pc = "plan"
    /\ steps' = StepsFor(radius.v)
    /\ tiles' = PlanTiles(bbox, steps')
    /\ pc' = "loop"
    /\ UNCHANGED <<inputVars, replayVars, radius, raised, bbox, fetchVars, all_features, geomVars,
                   debug_messages>>

(* ------------------------ main: the fetch loop ------------------------- *)
\* mutant: the tile list is walked from its end
CurrentTileReversed(ts, i) == ts[Len(ts) - i]

\* the tile_bbox enumerate(tiles) yields after i tiles
CurrentTile(ts, i) == ts[i + 1]

\* for i, tile_bbox in enumerate(tiles): log; json_str = download_data(tile_bbox)
TileStart ==
    /\ pc = "loop"
    /\ ti < Len(tiles)
    /\ Log(Msg("tile", ti + 1))
    /\ dl_calls' = Append(dl_calls, CurrentTile(tiles, ti))
    /\ attempt' = 0
    /\ waits' = 0
    /\ exc' = "none"
    /\ slept' = 0
    /\ response' = NoData
    /\ json_str' = NoData
    /\ pc' = "try"
    /\ UNCHANGED <<inputVars, replayVars, radius, raised, planVars, ti, attempts_total, waits_total,
                   all_features, geomVars>>

(* ---------------------------- download_data ---------------------------- *)
\* the features the service may still deliver in this run
FeatureRoom ==
    (IF steps = 4 THEN MaxFeaturesWide
     ELSE IF steps = 2 THEN MaxFeaturesGrid
     ELSE MaxFeatures) - Len(all_features)

\* what one urlopen ... read of a run gives: the exception it raises
\* ("none" if it returns) and the body it reads
Outcome(e, body) == [exc |-> e, body |-> body]

\* the outcomes the network may serve to the current attempt, `any` being
\* those of the wanted kind (ok: the attempt returns).  In a single run and
\* in the first of two runs any of them may come; the second run is served
\* what the first run was served, attempt by attempt.
Offered(ok, any) ==
    IF replay = "play"
    THEN IF attempts_total < Len(served)
              /\ (served[attempts_total + 1].exc = "none") = ok
         THEN {served[attempts_total + 1]}
         ELSE {}
    ELSE any

\* the first of two runs records what it is served
Serve(o) == served' = IF replay = "record" THEN Append(served, o) ELSE served

\* the try body succeeds: urlopen, read, decode, json.loads; return data
AttemptOk ==
    /\ pc = "try"
    /\ \E o \in Offered(TRUE, {Outcome("none", body) : body \in Bodies(FeatureRoom)}) :
          /\ Serve(o)
          /\ response' = o.body
          /\ json_str' = o.body
    /\ attempts_total' = attempts_total + 1
    /\ pc' = "returned"
    /\ UNCHANGED <<inputVars, replay, first_result, radius, raised, planVars, ti, attempt, waits, exc, slept,
                   dl_calls, waits_total, all_features, geomVars, debug_messages>>

\* the try body raises: IncompleteRead, ValueError (json.loads or decode)
\* or any other Exception
AttemptFail ==
    /\ pc = "try"
    /\ \E o \in Offered(FALSE, {Outcome(e, NoData) : e \in FetchErrors}) :
          /\ Serve(o)
          /\ exc' = o.exc
    /\ response' = NoData
    /\ attempts_total' = attempts_total + 1
    /\ pc' = "except"
    /\ UNCHANGED <<inputVars, replay, first_result, radius, raised, planVars, ti, attempt, waits, slept, json_str,
                   dl_calls, waits_total, all_features, geomVars, debug_messages>>

\* mutant: the loop runs one iteration more than max_retries
AfterAttemptExtra(a) == IF a + 1 < max_retries + 1 THEN "try" ELSE "giveup"

\* mutant: the loop retries for ever
AfterAttemptForever(a) == "try"

\* where the for loop of download_data goes after the except clause of
\* iteration a (0-based)
AfterAttempt(a) == IF a + 1 < max_retries THEN "try" ELSE "giveup"

\* mutant: exponential backoff
BackoffExponential(a) == 2 * Pow2(a)

\* time.sleep(2) in each of the three except clauses, whatever the attempt
BackoffSeconds(a) == 2

\* each except clause: log the warning; time.sleep(2); next iteration
Backoff ==
    /\ pc = "except"
    /\ waits' = waits + 1
    /\ slept' = slept + BackoffSeconds(attempt)
    /\ waits_total' = waits_total + 1
    /\ exc' = "none"
    /\ attempt' = attempt + 1
    /\ pc' = AfterAttempt(attempt)
    /\ UNCHANGED <<inputVars, replayVars, radius, raised, planVars, ti, response, json_str, dl_calls,
                   attempts_total, all_features, geomVars, debug_messages>>

\* after the loop: log "Failed to download data"; return None
GiveUp ==
    /\ pc = "giveup"
    /\ json_str' = NoData
    /\ pc' = "returned"
    /\ UNCHANGED <<inputVars, replayVars, radius, raised, planVars, ti, attempt, waits, exc, slept,
                   response, dl_calls, attempts_total, waits_total, all_features, geomVars,
                   debug_messages>>

(* --------------------- main: per-tile aggregation ---------------------- *)
\* if json_str: try: data = json.loads(json_str); features = data.get('features', []);
\* log(len(features)); all_features.extend(features)  except Exception: log
\* else: log "failed to download"
\* mutant: the features of a parsed tile are not added
TileFeaturesDropped(js) == <<>>

TileFeatures(js) ==
    IF js.kind = "features" THEN js.features
    ELSE <<>>   \* None, a dict without 'features', or the except clause

TileParse ==
    /\ pc = "returned"
    /\ all_features' = all_features \o TileFeatures(json_str)
    /\ ti' = ti + 1
    /\ pc' = "loop"
    /\ attempt' = 0         \* download_data has returned: its locals are gone
    /\ waits' = 0
    /\ slept' = 0
    /\ response' = NoData
    /\ UNCHANGED <<inputVars, replayVars, radius, raised, planVars, exc, json_str, dl_calls,
                   attempts_total, waits_total, geomVars, debug_messages>>

\* mutant: the empty aggregate is not noticed
NoFeaturesIgnored(fs) == FALSE

\* `not all_features`
NoFeatures(fs) == fs = <<>>

\* mutant: the fetch loop may be left after its first tile
LoopExhaustedEarly(i, n) == i >= 1

\* enumerate(tiles) has no tile left after i tiles of n
LoopExhausted(i, n) == i = n

\* the loop is exhausted; if not all_features: log; return buildings
CheckFeatures ==
    /\ pc = "loop"
    /\ LoopExhausted(ti, Len(tiles))
    /\ IF NoFeatures(all_features)
       THEN /\ Log(Msg("no_data", 0))
            /\ pc' = "done"
       ELSE /\ pc' = "dedup"
            /\ UNCHANGED debug_messages
    /\ UNCHANGED <<inputVars, replayVars, radius, raised, planVars, fetchVars, all_features, geomVars>>

(* ------------------------- main: deduplication ------------------------- *)
\* f_id = f.get('id') is tested by truthiness: None and "" are false
IdTruthy(f_id) == f_id # "absent" /\ f_id # ""

\* seen_ids = set(); unique_features = []; for f in all_features: ...
RECURSIVE DedupLoop(_, _, _, _)
DedupLoop(fs, k, seen_ids, unique) ==
    IF k > Len(fs) THEN unique
    ELSE LET f_id == fs[k].id
         IN  IF IdTruthy(f_id) /\ f_id \in seen_ids
             THEN DedupLoop(fs, k + 1, seen_ids, unique)
             ELSE DedupLoop(fs, k + 1,
                            IF IdTruthy(f_id) THEN seen_ids \cup {f_id} ELSE seen_ids,
                            Append(unique, fs[k]))

Dedup(fs) == DedupLoop(fs, 1, {}, <<>>)

Deduplicate ==
    /\ pc = "dedup"
    /\ unique_features' = Dedup(all_features)
    /\ pc' = "geom"
    /\ UNCHANGED <<inputVars, replayVars, radius, raised, planVars, fetchVars, all_features, fi,
                   buildings, debug_messages>>

(* ---------------------------- project_coords -------------------------- *)
\* metres per degree at the centre latitude.  In the model one unit of
\* latitude is MetresPerUnit metres and one unit of longitude is that times
\* the cosine of the centre latitude (the leading terms of the two series).
MPerDegLat(center_lat) == MetresPerUnit
MPerDegLon(center_lat) == FDiv(MetresPerUnit * CosNum(center_lat), CosDen(center_lat))

project_coords(lon_, lat_, center_lon, center_lat) ==
    [x |-> FMul(FSub(lon_, center_lon), MPerDegLon(center_lat)),
     y |-> FMul(FSub(lat_, center_lat), MPerDegLat(center_lat))]

\* the first point of the polyline create_polyline builds from a ring
create_polyline(vertex, center_lon, center_lat) ==
    project_coords(vertex.lon, vertex.lat, center_lon, center_lat)

(* ----------------------- create_building_brep -------------------------- *)
\* a solid: the extrusion of polygon `poly` of unique feature number `feat`,
\* its base curve starting at the projected point pt
Solid(feat, poly, height, pt) ==
    [feat |-> feat, poly |-> poly, height |-> height, pt |-> pt]

\* props = feature.get('properties', {}); height = float(props.get('height', 3.0))
HeightOf(f) ==
    IF f.props = "null" THEN [raised |-> "AttributeError", v |-> 0]
    ELSE IF f.props = "absent" \/ f.height = "absent" THEN [raised |-> "none", v |-> 3]
    ELSE IF f.height = "null" THEN [raised |-> "TypeError", v |-> 0]
    ELSE IF f.height = "text" THEN [raised |-> "ValueError", v |-> 0]
    ELSE [raised |-> "none", v |-> 5]

\* for poly_coords in polygons: try: ... breps.append(extruded_brep)
\*                              except Exception: log(...)
RECURSIVE PolygonLoop(_, _, _, _, _, _, _)
PolygonLoop(polys, k, feat, height, pt, breps, errors) ==
    IF k > Len(polys) THEN [raised |-> "none", breps |-> breps, errors |-> errors]
    ELSE IF polys[k] = "ok"
         THEN PolygonLoop(polys, k + 1, feat, height, pt,
                          Append(breps, Solid(feat, k, height, pt)), errors)
    ELSE IF polys[k] = "bad_ring"
         THEN PolygonLoop(polys, k + 1, feat, height, pt, breps, errors + 1)
    ELSE PolygonLoop(polys, k + 1, feat, height, pt, breps, errors)

\* mutant: only the first polygon of the coordinates is built
create_building_brep_first_polygon(f, feat, height, center_lon, center_lat) ==
    IF f.gtype \in {"Polygon", "MultiPolygon"}
    THEN PolygonLoop(SubSeq(f.polys, 1, 1), 1, feat, height,
                     create_polyline(f.vertex, center_lon, center_lat), <<>>, 0)
    ELSE [raised |-> "none", breps |-> <<>>, errors |-> 0]

\* geometry['type'] is read outside any try: a missing geometry ({} by the
\* default of feature.get), a geometry without 'type' and a null geometry raise
create_building_brep(f, feat, height, center_lon, center_lat) ==
    IF f.gtype \in {"absent", "notype"}
    THEN [raised |-> "KeyError", breps |-> <<>>, errors |-> 0]
    ELSE IF f.gtype = "null"
    THEN [raised |-> "TypeError", breps |-> <<>>, errors |-> 0]
    ELSE IF f.gtype \in {"Polygon", "MultiPolygon"}
    THEN PolygonLoop(f.polys, 1, feat, height,
                     create_polyline(f.vertex, center_lon, center_lat), <<>>, 0)
    ELSE [raised |-> "none", breps |-> <<>>, errors |-> 0]

\* n copies of the message m
RECURSIVE Repeat(_, _)
Repeat(m, n) == IF n = 0 THEN <<>> ELSE <<m>> \o Repeat(m, n - 1)

(* ----------------------- main: the geometry loop ----------------------- *)
\* mutant: the projection is centred on the corner of the bounding box
ProjectionCentreOfBBox(bb, lo, la) == Vertex(bb.min_lon, bb.min_lat)

\* center_lon = lon; center_lat = lat: the requested centre
ProjectionCentre(bb, lo, la) == Vertex(lo.v, la.v)

\* for i, feature in enumerate(unique_features): ... buildings.extend(new_breps)
\* nothing in the loop body is inside a try
ReconstructFeature ==
    /\ pc = "geom"
    /\ fi < Len(unique_features)
    /\ LET feature == unique_features[fi + 1]
           h == HeightOf(feature)
           centre == ProjectionCentre(bbox, lon, lat)
           r == create_building_brep(feature, fi + 1, h.v, centre.lon, centre.lat)
       IN  IF h.raised # "none"
           THEN /\ raised' = h.raised
                /\ pc' = "raised"
                /\ UNCHANGED <<fi, buildings, debug_messages>>
           ELSE IF r.raised # "none"
           THEN /\ raised' = r.raised
                /\ pc' = "raised"
                /\ UNCHANGED <<fi, buildings, debug_messages>>
           ELSE /\ buildings' = buildings \o r.breps
                /\ debug_messages' =
                       debug_messages \o Repeat(Msg("brep_error", 0), r.errors)
                /\ fi' = fi + 1
                /\ UNCHANGED <<pc, raised>>
    /\ UNCHANGED <<inputVars, replayVars, radius, planVars, fetchVars, all_features, unique_features>>

\* the loop is exhausted: log the totals; return buildings
Finish ==
    /\ pc = "geom"
    /\ fi = Len(unique_features)
    /\ Log(Msg("created", Len(buildings)))
    /\ pc' = "done"
    /\ UNCHANGED <<inputVars, replayVars, radius, raised, planVars, fetchVars, all_features, geomVars>>

(* ----------------------------- a second run --------------------------- *)
\* mutant: the result list outlives the call
NewBuildingsKept(old) == old

\* buildings = [] at the head of main: a fresh list in every call
NewBuildings(old) == <<>>

\* main is called again with the same arguments after it has returned (or
\* raised).  The locals of main and download_data are new; the module-level
\* debug_messages keeps the lines of the first run.
Rerun ==
    /\ replay = "record"
    /\ pc \in {"done", "raised"}
    /\ first_result' = Result(pc = "done", buildings, raised)
    /\ replay' = "play"
    /\ radius' = radius_arg
    /\ pc' = "main"
    /\ raised' = "none"
    /\ bbox' = NoBBox
    /\ steps' = 0
    /\ tiles' = <<>>
    /\ ti' = 0
    /\ attempt' = 0
    /\ waits' = 0
    /\ exc' = "none"
    /\ slept' = 0
    /\ response' = NoData
    /\ json_str' = NoData
    /\ dl_calls' = <<>>
    /\ attempts_total' = 0
    /\ waits_total' = 0
    /\ all_features' = <<>>
    /\ unique_features' = <<>>
    /\ fi' = 0
    /\ buildings' = NewBuildings(buildings)
    /\ UNCHANGED <<inputVars, served, debug_messages>>

(* --------------------------- specifications ---------------------------- *)
Next ==
    \/ CheckRun
    \/ ValidateInputs
    \/ ComputeBBox
    \/ PlanGrid
    \/ TileStart
    \/ AttemptOk
    \/ AttemptFail
    \/ Backoff
    \/ GiveUp
    \/ TileParse
    \/ CheckFeatures
    \/ Deduplicate
    \/ ReconstructFeature
    \/ Finish

Spec == Init /\ [][Next]_vars

\* the planner alone: main up to the end of the tile plan, on wider inputs
NextPlan ==
    \/ CheckRun
    \/ ValidateInputs
    \/ ComputeBBox
    \/ PlanGrid

SpecPlan == InitPlan /\ [][NextPlan]_vars

\* two runs in a row: the second is served the responses of the first
NextTwice ==
    \/ Next
    \/ Rerun

SpecTwice == InitTwice /\ [][NextTwice]_vars

(* ------------------------------- claims -------------------------------- *)
\* C1: download_data makes at most 3 attempts for one tile, stops at the
\* first successful attempt and returns the body that attempt read, and
\* after 3 failed attempts returns None ("no data") without raising.
C1_BoundedRetry ==
    /\ pc \in {"try", "except"} => attempt \in 0..2
    /\ pc \in {"try", "except", "giveup"} => response = NoData
    /\ pc = "giveup" => attempt = 3
    /\ pc = "returned" /\ response # NoData => attempt <= 2 /\ json_str = response
    /\ pc = "returned" /\ response = NoData =>
          attempt = 3 /\ json_str = NoData /\ raised = "none"
    /\ attempts_total <= 3 * Len(dl_calls)

\* three failed attempts, "no data" returned
C1_Witness == pc = "returned" /\ json_str = NoData /\ attempt = 3 /\ attempts_total = 3

\* C2: every attempt after the first is immediately preceded by exactly one
\* 2-second backoff; a call that succeeds on attempt k has waited k-1 times
\* (2 failures then a success: exactly 2 waits).
C2_OneBackoffPerRetry ==
    /\ [](/\ pc = "try" => waits = attempt /\ slept = 2 * attempt
          /\ pc = "returned" /\ response # NoData => waits = attempt /\ slept = 2 * attempt)
    /\ [][pc' = "try" /\ attempt' > 0 =>
             /\ pc = "except"
             /\ attempt' = attempt + 1
             /\ waits' = waits + 1
             /\ slept' = slept + 2]_vars

\* two failures, then a success that delivers features
C2_Witness ==
    /\ pc = "returned"
    /\ response.kind = "features"
    /\ response.features # <<>>
    /\ attempt = 2
    /\ waits = 2

\* C3: a tile that exhausts its retries, or whose body fails the feature
\* extraction, never aborts the run: main goes on to the next tile, the tile
\* adds no feature, a parsed tile adds all of its features, and
\* download_data is called once for each of the steps*steps planned tiles.
C3_FailedTileSkipped ==
    /\ [](/\ dl_calls = SubSeq(tiles, 1, Len(dl_calls))
          /\ pc \in {"dedup", "geom", "raised"} \/ (pc = "done" /\ steps > 0) =>
                Len(dl_calls) = steps * steps)
    /\ [][pc = "returned" =>
             /\ pc' = "loop"
             /\ raised' = "none"
             /\ ti' = ti + 1
             /\ all_features' = all_features \o
                   (IF response.kind = "features" THEN response.features ELSE <<>>)]_vars

\* a 2x2 run in which a tile gave no payload and the run still went on to
\* deduplicate the features of the other tiles
C3_Witness ==
    /\ pc = "dedup"
    /\ steps = 2
    /\ Len(dl_calls) = 4
    /\ waits_total >= 3
    /\ attempts_total - waits_total < 4
    /\ Len(all_features) = 2

\* C4: a malformed feature never aborts the run: no exception leaves main,
\* a one-tile run ends with exactly one solid per well-formed Polygon feature
\* and, if a feature was malformed, with an error message in the log.
WellFormed(f) ==
    /\ f.gtype = "Polygon"
    /\ f.polys = <<"ok">>
    /\ HeightOf(f).raised = "none"

Malformed(f) ==
    \/ HeightOf(f).raised # "none"
    \/ f.gtype \in {"absent", "null", "notype"}
    \/ \E k \in 1..Len(f.polys) : f.polys[k] = "bad_ring"

C4_MalformedFeatureSkipped ==
    /\ raised = "none"
    /\ pc = "done" /\ steps = 1 /\ all_features # <<>> =>
          /\ \A k \in 1..Len(unique_features) :
                WellFormed(unique_features[k]) =>
                    Cardinality({n \in 1..Len(buildings) : buildings[n].feat = k}) = 1
          /\ (\E k \in 1..Len(unique_features) : Malformed(unique_features[k])) =>
                \E n \in 1..Len(debug_messages) : debug_messages[n].msg = "brep_error"

\* C5: deduplication keeps, in the combined order, exactly the first
\* occurrence of every feature id and every feature without an id.
RECURSIVE KeepFirstOccurrence(_, _)
KeepFirstOccurrence(fs, k) ==
    IF k > Len(fs) THEN <<>>
    ELSE (IF fs[k].id = "absent" \/ \A j \in 1..(k - 1) : fs[j].id # fs[k].id
          THEN <<fs[k]>> ELSE <<>>) \o KeepFirstOccurrence(fs, k + 1)

C5_FirstOccurrenceKept ==
    pc \in {"geom", "raised"} \/ (pc = "done" /\ all_features # <<>>) =>
        unique_features = KeepFirstOccurrence(all_features, 1)

\* C6: steps is 1 for radius <= 251, 2 for 251 < radius <= 500 and 4 above
\* (radius 200 and 251: 1 tile, 500: 4 tiles, 1000: 16 tiles), and the tile
\* list has steps*steps entries.  radius is main's local after the default.
C6_StepsByRadius ==
    pc = "loop" =>
        /\ radius.v <= 251 => steps = 1
        /\ 251 < radius.v /\ radius.v <= 500 => steps = 2
        /\ radius.v > 500 => steps = 4
        /\ radius.v \in {200, 251} => Len(tiles) = 1
        /\ radius.v = 500 => Len(tiles) = 4
        /\ radius.v = 1000 => Len(tiles) = 16
        /\ Len(tiles) = steps * steps

\* the boundary radius 251 planned as a single tile
C6_Witness == pc = "loop" /\ radius_arg = Num(251) /\ Len(tiles) = 1

\* C7: the tiles form a row-major grid over the bounding box: tile
\* i*steps+j is column j of row i, neighbours share their common edge
\* exactly, no two tiles overlap in area, and the grid starts at the bbox
\* minimum and ends at the bbox maximum.
Row(k) == (k - 1) \div steps
Col(k) == (k - 1) % steps

GridShape ==
    \A k \in 1..Len(tiles) :
        /\ Col(k) < steps - 1 =>
              /\ tiles[k].max_lon = tiles[k + 1].min_lon
              /\ tiles[k].min_lat = tiles[k + 1].min_lat
              /\ tiles[k].max_lat = tiles[k + 1].max_lat
        /\ Row(k) < steps - 1 =>
              /\ tiles[k].max_lat = tiles[k + steps].min_lat
              /\ tiles[k].min_lon = tiles[k + steps].min_lon
              /\ tiles[k].max_lon = tiles[k + steps].max_lon
        /\ tiles[k].min_lon <= tiles[k].max_lon
        /\ tiles[k].min_lat <= tiles[k].max_lat

NoOverlap ==
    \A k, l \in 1..Len(tiles) :
        k < l =>
            \/ tiles[k].max_lon <= tiles[l].min_lon
            \/ tiles[l].max_lon <= tiles[k].min_lon
            \/ tiles[k].max_lat <= tiles[l].min_lat
            \/ tiles[l].max_lat <= tiles[k].min_lat

GridStartsAtMin ==
    /\ tiles[1].min_lon = bbox.min_lon
    /\ tiles[1].min_lat = bbox.min_lat

\* the statement as claimed: the last tile ends exactly at the bbox maximum
C7_ExactPartition ==
    pc = "loop" =>
        /\ GridShape
        /\ NoOverlap
        /\ GridStartsAtMin
        /\ tiles[Len(tiles)].max_lon = bbox.max_lon
        /\ tiles[Len(tiles)].max_lat = bbox.max_lat

\* amended: the last tile ends at the bbox maximum up to one rounding error
\* of the bbox span (the floating tolerance)
C7_PartitionWithinTolerance ==
    pc = "loop" =>
        /\ GridShape
        /\ NoOverlap
        /\ GridStartsAtMin
        /\ Abs(tiles[Len(tiles)].max_lon - bbox.max_lon)
              <= Ulp(bbox.max_lon - bbox.min_lon, 1)
        /\ Abs(tiles[Len(tiles)].max_lat - bbox.max_lat)
              <= Ulp(bbox.max_lat - bbox.min_lat, 1)

\* a 4x4 plan whose last tile misses the bbox maximum by a rounding error
C7_Witness ==
    /\ pc = "loop"
    /\ steps = 4
    /\ tiles[16].max_lon # bbox.max_lon

\* C8: with the run flag false main returns an empty list at once: no bbox,
\* no tile plan, no network request, whatever lat, lon and radius are.
NothingStarted ==
    /\ buildings = <<>>
    /\ bbox = NoBBox
    /\ steps = 0
    /\ tiles = <<>>
    /\ dl_calls = <<>>
    /\ attempts_total = 0
    /\ raised = "none"

C8_RunFalseReturnsEmpty == ~run => pc \in {"main", "done"} /\ NothingStarted

\* run is false, every other input is valid, main has returned
C8_Witness == ~run /\ pc = "done" /\ Truthy(lat) /\ Truthy(lon) /\ Truthy(radius_arg)

\* C9: with run true and latitude or longitude absent (None), main stops at
\* input validation and returns an empty list without raising: no bbox, no
\* network request.
C9_MissingLatLonReturnsEmpty ==
    run /\ (lat.none \/ lon.none) => pc \in {"main", "validate", "done"} /\ NothingStarted

\* only the longitude is absent, main has returned
C9_Witness == run /\ Truthy(lat) /\ lon.none /\ pc = "done"

\* C10: an absent radius behaves exactly as radius 500 (bbox for 500 m, the
\* 2x2 plan of 4 tiles); a supplied radius is used unchanged.
BBox500 == calculate_bbox(lat.v, lon.v, 500)

AsRadius500 ==
    /\ radius = Num(500)
    /\ pc \in {"plan", "loop"} => bbox = BBox500
    /\ pc = "loop" => steps = 2 /\ Len(tiles) = 4 /\ tiles = PlanTiles(BBox500, 2)

\* the statement as claimed
C10_SuppliedRadiusUnchanged ==
    pc \in {"bbox", "plan", "loop"} =>
        IF radius_arg.none THEN AsRadius500 ELSE radius = radius_arg

\* amended: an absent radius, and a supplied radius of 0, behave exactly as
\* radius 500; any other supplied radius is used unchanged
C10_DefaultRadius ==
    pc \in {"bbox", "plan", "loop"} =>
        IF radius_arg.none \/ radius_arg.v = 0 THEN AsRadius500 ELSE radius = radius_arg

\* no radius supplied, the 2x2 grid planned
C10_Witness == radius_arg.none /\ pc = "loop" /\ Len(tiles) = 4

\* C11: if no tile produced a feature, main returns the empty list right
\* after the fetch loop: deduplication and reconstruction are never entered
\* (no feature is handed to create_building_brep); with at least one
\* aggregated feature the run goes on to deduplication and reconstruction.
C11_NoFeaturesReturnsEmpty ==
    /\ all_features = <<>> =>
          /\ pc \notin {"dedup", "geom", "raised"}
          /\ unique_features = <<>>
          /\ fi = 0
          /\ buildings = <<>>
    /\ pc = "done" /\ steps > 0 /\ all_features = <<>> =>
          /\ ti = Len(tiles)
          /\ debug_messages[Len(debug_messages)] = Msg("no_data", 0)
    /\ pc = "done" /\ all_features # <<>> =>
          /\ unique_features = Dedup(all_features)
          /\ unique_features # <<>>
          /\ fi = Len(unique_features)
          /\ debug_messages[Len(debug_messages)] = Msg("created", Len(buildings))
    /\ pc = "loop" /\ ti < Len(tiles) => unique_features = <<>> /\ fi = 0

\* a 2x2 run whose four tiles all failed or were empty, ended without solids
C11_Witness ==
    /\ pc = "done"
    /\ steps = 2
    /\ Len(dl_calls) = 4
    /\ all_features = <<>>
    /\ attempts_total > waits_total
    /\ waits_total >= 3

\* C12: in create_building_brep a polygon that fails (malformed ring, no
\* planar surface, failed extrusion) is caught, logged and skipped alone:
\* every other polygon of the feature yields its solid, the features after
\* it are processed, and the log holds one error line per failed polygon.
RECURSIVE CountIn(_, _, _)
CountIn(s, k, kind) ==
    IF k > Len(s) THEN 0
    ELSE (IF s[k] = kind THEN 0 ELSE 1) + CountIn(s, k + 1, kind)

\* the polygons of the first n features that did not yield a solid
RECURSIVE FailedPolygons(_, _)
FailedPolygons(fs, n) ==
    IF n = 0 THEN 0
    ELSE FailedPolygons(fs, n - 1) +
         (IF fs[n].gtype \in {"Polygon", "MultiPolygon"}
          THEN CountIn(fs[n].polys, 1, "ok") ELSE 0)

ErrorLines == Cardinality({n \in 1..Len(debug_messages) : debug_messages[n].msg = "brep_error"})

C12_FailedPolygonLoggedAndSkipped ==
    pc \in {"geom", "done"} /\ unique_features # <<>> =>
        /\ \A k \in 1..fi :
              \A p \in 1..Len(unique_features[k].polys) :
                  unique_features[k].polys[p] = "ok" <=>
                      \E n \in 1..Len(buildings) :
                          buildings[n].feat = k /\ buildings[n].poly = p
        /\ ErrorLines = FailedPolygons(unique_features, fi)

\* C13: the phases run in the fixed order Idle, ValidatingInputs,
\* ComputingBBox, PlanningTiles, FetchingTiles, Aggregating, Deduplicating,
\* ReconstructingGeometry, Done, and no earlier phase is entered again.
\* Phase is the phase main is in: a tile's payload is parsed (aggregated)
\* at "returned", the whole aggregate is tested when the loop is exhausted.
Phase ==
    CASE pc = "main" -> 0
      [] pc = "validate" -> 1
      [] pc = "bbox" -> 2
      [] pc = "plan" -> 3
      [] pc \in {"try", "except", "giveup"} -> 4
      [] pc = "loop" -> IF ti < Len(tiles) THEN 4 ELSE 5
      [] pc = "returned" -> 5
      [] pc = "dedup" -> 6
      [] pc = "geom" -> 7
      [] pc \in {"done", "raised"} -> 8

\* the statement as claimed: every fetch is over before any payload is parsed
C13_LinearPhases == [][Phase' >= Phase]_vars

\* fetching and aggregating taken as one phase
PhaseOfTiles == IF Phase = 5 THEN 4 ELSE Phase

\* amended: the order is linear with FetchingTiles and Aggregating
\* interleaved tile by tile (a payload is parsed as soon as its fetch has
\* returned, before the next tile is fetched); every tile is fetched and
\* parsed before deduplication, which is complete before the first solid.
C13_LinearPhasesPerTile ==
    /\ [][PhaseOfTiles' >= PhaseOfTiles]_vars
    /\ [][/\ all_features' # all_features => pc = "returned"
          /\ unique_features' # unique_features => pc = "dedup"
          /\ buildings' # buildings => pc = "geom"]_vars
    /\ [](/\ pc \in {"dedup", "geom"} =>
                ti = Len(tiles) /\ Len(dl_calls) = Len(tiles) /\ steps > 0
          /\ pc = "geom" \/ fi > 0 \/ buildings # <<>> =>
                unique_features = Dedup(all_features))

\* a fetch under way after an earlier tile's features were aggregated
C13_Witness == pc = "try" /\ ti >= 1 /\ all_features # <<>>

\* C14: tiles are fetched one at a time in row-major order: call number k
\* of download_data is for column (k-1) % steps of row (k-1) \div steps, at
\* most one call is open at any moment, the first attempt for the next tile
\* starts only after the previous call has returned and its tile is done,
\* and the progress messages carry the tile numbers 1, 2, ... in order.
IsTileMsg(m) == m.msg = "tile"
TileMessages == SelectSeq(debug_messages, IsTileMsg)

C14_SequentialRowMajor ==
    /\ [](/\ Len(dl_calls) - ti \in {0, 1}
          /\ pc \in {"try", "except", "giveup", "returned"} <=> Len(dl_calls) = ti + 1
          /\ TileMessages = [k \in 1..Len(dl_calls) |-> Msg("tile", k)])
    /\ [][/\ pc' = "try" /\ attempt' = 0 =>
                /\ pc = "loop"
                /\ Len(dl_calls) = ti
                /\ dl_calls' = Append(dl_calls,
                                      TileAt(bbox, steps, ti \div steps, ti % steps))
                /\ attempts_total' = attempts_total
          /\ dl_calls' # dl_calls => pc' = "try" /\ attempt' = 0]_vars

\* the first attempt for the last tile of the 2x2 grid is under way, after
\* an earlier tile has used up its retries
C14_Witness ==
    /\ pc = "try"
    /\ steps = 2
    /\ ti = 3
    /\ attempt = 0
    /\ waits_total >= 3

SolidsOf(k) == Cardinality({n \in 1..Len(buildings) : buildings[n].feat = k})

C16_SolidsInPolygonOrder ==
    pc \in {"geom", "done"} /\ unique_features # <<>> =>
        /\ \A n \in 1..Len(buildings) :
              /\ buildings[n].feat \in 1..fi
              /\ buildings[n].poly \in 1..Len(unique_features[buildings[n].feat].polys)
              /\ buildings[n].height = HeightOf(unique_features[buildings[n].feat]).v
        /\ \A n, m \in 1..Len(buildings) :
              n < m =>
                  \/ buildings[n].feat < buildings[m].feat
                  \/ /\ buildings[n].feat = buildings[m].feat
                     /\ buildings[n].poly < buildings[m].poly
        /\ \A k \in 1..fi :
              LET f == unique_features[k]
              IN  /\ f.gtype = "Polygon" /\ f.polys = <<"ok">> => SolidsOf(k) = 1
                  /\ f.gtype = "MultiPolygon"
                        /\ (\A p \in 1..Len(f.polys) : f.polys[p] = "ok") =>
                            SolidsOf(k) = Len(f.polys)
                  /\ f.gtype \notin {"Polygon", "MultiPolygon"} => SolidsOf(k) = 0
                  /\ SolidsOf(k) <= Len(f.polys)

\* a returned run over a Polygon, a MultiPolygon of two good polygons and a
\* Point: three solids
C16_Witness ==
    /\ pc = "done"
    /\ Len(unique_features) = 3
    /\ Len(buildings) = 3
    /\ \E k \in 1..3 : unique_features[k].gtype = "Point"
    /\ \E k \in 1..3 : unique_features[k].gtype = "Polygon"
    /\ \E k \in 1..3 :
          unique_features[k].gtype = "MultiPolygon" /\ SolidsOf(k) = 2

\* C17: every run ends, whatever each attempt gives and whatever the
\* payloads hold, and it makes at most 3 attempts and at most 3 backoff
\* waits per planned tile: at most 3, 12 or 48 for 1, 4 or 16 tiles.
\* A run ends when main returns or an exception leaves it.
Ended == pc \in {"done", "raised"}

\* the steps one tile can take: the loop head, max_retries attempts each
\* with its except clause, the give-up and the handling of the payload
TileCost == 2 * max_retries + 3

\* an upper bound on the steps the fetch loop has left
FetchLeft ==
    LET whole == (Len(tiles) - ti) * TileCost
    IN  CASE pc = "main" -> 4 + 4 * 4 * TileCost
          [] pc = "validate" -> 3 + 4 * 4 * TileCost
          [] pc = "bbox" -> 2 + 4 * 4 * TileCost
          [] pc = "plan" -> 1 + 4 * 4 * TileCost
          [] pc = "loop" -> whole
          [] pc = "try" -> whole - 1 - 2 * attempt
          [] pc = "except" -> whole - 2 - 2 * attempt
          [] pc = "giveup" -> whole - 2 * max_retries - 1
          [] pc = "returned" -> whole - 2 * max_retries - 2
          [] OTHER -> 0

\* an upper bound on the steps left after the fetch loop: the test of the
\* aggregate, the deduplication, one step per unique feature and the end
GeomLeft ==
    CASE Ended -> 0
      [] pc = "geom" -> Len(unique_features) - fi + 1
      [] pc = "dedup" -> Len(all_features) + 2
      [] OTHER -> MaxFeatures + MaxFeaturesGrid + MaxFeaturesWide + 3

StepsLeft == FetchLeft + GeomLeft

\* the guards of Next: the position is one of main's, the fetch loop has
\* a tile left or is exhausted, and so has the geometry loop (an attempt
\* in a single run can always succeed or fail)
CanStep ==
    \/ pc \in {"main", "validate", "bbox", "plan", "except", "giveup", "returned", "dedup"}
    \/ pc = "try" /\ replay # "play"
    \/ pc = "loop" /\ ti <= Len(tiles)
    \/ pc = "geom" /\ fi <= Len(unique_features)

C18_OneProjectionOrigin ==
    pc \in {"geom", "done", "raised"} =>
        /\ \A n \in 1..Len(buildings) :
              LET v == unique_features[buildings[n].feat].vertex
              IN  /\ buildings[n].pt = project_coords(v.lon, v.lat, lon.v, lat.v)
                  /\ v = Vertex(lon.v, lat.v) => buildings[n].pt = [x |-> 0, y |-> 0]
        /\ \A n, m \in 1..Len(buildings) :
              unique_features[buildings[n].feat].vertex
                    = unique_features[buildings[m].feat].vertex =>
                  buildings[n].pt = buildings[m].pt

\* a 2x2 run with solids of two features that both start at the requested
\* centre
C18_Witness ==
    /\ pc = "geom"
    /\ steps = 2
    /\ \E n, m \in 1..Len(buildings) :
          /\ buildings[n].feat # buildings[m].feat
          /\ buildings[n].pt = [x |-> 0, y |-> 0]
          /\ buildings[m].pt = [x |-> 0, y |-> 0]
          /\ unique_features[buildings[n].feat].vertex = Vertex(lon.v, lat.v)

\* C19: in one call of download_data a backoff wait comes only between two
\* attempts: when the call ends it has waited once less than it has
\* attempted, and after the third failed attempt it does not wait again.
AttemptsMade == IF response # NoData THEN attempt + 1 ELSE attempt

C19_WaitsBetweenAttempts ==
    /\ pc = "giveup" => waits = max_retries - 1
    /\ pc = "returned" => waits = AttemptsMade - 1

\* C20: with run true and latitude and longitude both supplied as numbers,
\* the value 0 included, main passes the input validation, computes the
\* bounding box and calls download_data for every planned tile; the
\* validation message is logged only when a coordinate is absent.
C20_ZeroCoordinateAccepted ==
    /\ run /\ ~lat.none /\ ~lon.none /\ Ended =>
          /\ steps > 0
          /\ bbox = calculate_bbox(lat.v, lon.v, radius.v)
          /\ Len(dl_calls) = steps * steps
    /\ (\E n \in 1..Len(debug_messages) : debug_messages[n].msg = "latlon_required") =>
          lat.none \/ lon.none

====
